---- MODULE Spec2Model ----
(***************************************************************************)
(* Model of rig: a primary commit log (Log) replicated to one optional     *)
(* peer by a Doer.  The model covers Log (log.go), the Doer's startup      *)
(* reconciliation (NewDoer), the write path (Doer.Do) and the background   *)
(* catch-up loop (Doer.syncPeer).  The on-disk store (lm2log) is modelled  *)
(* from its documented prepared/committed semantics.                       *)
(***************************************************************************)
EXTENDS Naturals, Integers, Sequences, FiniteSets, TLC

----------------------------------------------------------------------------
(* Bounds *)

\* Do is accepted only while the local committed version is below this.
MaxVersion == 2

\* Highest committed version a log may hold on disk when the process starts.
MaxInit == 1

\* Width of the version counters (uint64 in the source), in bits.
UintBits == 3

Modulus == 2 ^ UintBits

\* Number of request handlers that may call Do.
NumClients == 2

\* Startup alone is also explored with a peer this many versions further
\* ahead than MaxInit.
MaxAhead == 1

\* Bound on the Service.Apply calls seen by a node driven through /log/*.
MaxApplies == 3

----------------------------------------------------------------------------
(* Values *)

Clients == 1 .. NumClients

NoOp == "none"

ValidOps == {"a", "b"}

InvalidOps == {"x"}

Ops == ValidOps \cup InvalidOps

Versions == 0 .. (Modulus - 1)

\* Versions at which a store can hold a record within the bounds.
MaxRec ==
    (IF MaxInit > MaxVersion THEN MaxInit ELSE MaxVersion) + MaxAhead + 1

RecIds == 1 .. MaxRec

\* HTTP-style status codes carried by LogError.
StatusOK == 200

StatusBadRequest == 400

StatusNotFound == 404

StatusInternalServerError == 500

StatusServiceUnavailable == 503

\* Number of attempts of a peer RPC inside Do.
MaxTries == 3

\* client.LogPayload
Payload(v, op) == [version |-> v, op |-> op]

NoPayload == Payload(0, NoOp)

\* json.Marshal(payload.Op) / json.Unmarshal(data, &operation)
Marshal(op) == <<"json", op>>

Unmarshal(data) == data[2]

NoData == <<"json", NoOp>>

Inc(v) == (v + 1) % Modulus

----------------------------------------------------------------------------
(* lm2log: the on-disk store.  committed = 0 means nothing committed,      *)
(* prepared = 0 means nothing prepared.                                     *)

EmptyStore == [committed |-> 0, prepared |-> 0, rec |-> [v \in RecIds |-> NoData]]

StoreGetOK(l, v) == v \in RecIds /\ l.rec[v] # NoData

StoreGet(l, v) == l.rec[v]

StorePrepareOK(l) == l.prepared = 0

StorePrepare(l, data) ==
    [l EXCEPT !.prepared = Inc(l.committed), !.rec[Inc(l.committed)] = data]

\* StoreCommit that promotes the prepared record without clearing the marker.
StoreCommitKeepsPrepared(l) ==
    IF l.prepared = 0 THEN l
    ELSE [l EXCEPT !.committed = l.prepared]

StoreCommit(l) ==
    IF l.prepared = 0 THEN l
    ELSE [l EXCEPT !.committed = l.prepared, !.prepared = 0]

\* StoreRollback that, with nothing prepared, undoes the last commit.
StoreRollbackUndoesCommit(l) ==
    IF l.prepared # 0 THEN [l EXCEPT !.rec[l.prepared] = NoData, !.prepared = 0]
    ELSE IF l.committed = 0 THEN l
    ELSE [l EXCEPT !.rec[l.committed] = NoData, !.committed = l.committed - 1]

StoreRollback(l) ==
    IF l.prepared = 0 THEN l
    ELSE [l EXCEPT !.rec[l.prepared] = NoData, !.prepared = 0]

----------------------------------------------------------------------------
(* Service *)

Validate(op) == op \in ValidOps

----------------------------------------------------------------------------
(* Log (log.go).  Each operator returns the new store and the status of    *)
(* the returned LogError (200 for nil).  The parameter fail names the      *)
(* store or service failure injected into the call, "none" for no failure. *)

LogPrepared(l, fail) ==
    IF fail = "read" THEN [status |-> StatusInternalServerError, payload |-> NoPayload]
    ELSE IF l.prepared = 0 THEN [status |-> StatusNotFound, payload |-> NoPayload]
    ELSE [status |-> StatusOK,
          payload |-> Payload(l.prepared, Unmarshal(StoreGet(l, l.prepared)))]

\* errNil is LogError.Err == nil, which Do tests instead of the status code.
LogCommitted(l, fail) ==
    IF fail = "read"
    THEN [status |-> StatusInternalServerError, errNil |-> FALSE, payload |-> NoPayload]
    ELSE IF l.committed = 0
    THEN [status |-> StatusNotFound, errNil |-> TRUE, payload |-> NoPayload]
    ELSE [status |-> StatusOK, errNil |-> TRUE,
          payload |-> Payload(l.committed, Unmarshal(StoreGet(l, l.committed)))]

\* LogPrepare without the payload.Version != committed+1 test.
LogPrepareNoVersionCheck(l, payload, fail) ==
    IF fail = "read" THEN [log |-> l, status |-> StatusInternalServerError]
    ELSE IF ~Validate(payload.op)
    THEN [log |-> l, status |-> StatusBadRequest]
    ELSE IF fail = "store" \/ ~StorePrepareOK(l)
    THEN [log |-> l, status |-> StatusInternalServerError]
    ELSE [log |-> StorePrepare(l, Marshal(payload.op)), status |-> StatusOK]

\* LogPrepare without the service.Validate test.
LogPrepareNoValidate(l, payload, fail) ==
    IF fail = "read" THEN [log |-> l, status |-> StatusInternalServerError]
    ELSE IF payload.version # Inc(l.committed)
    THEN [log |-> l, status |-> StatusBadRequest]
    ELSE IF fail = "store" \/ ~StorePrepareOK(l)
    THEN [log |-> l, status |-> StatusInternalServerError]
    ELSE [log |-> StorePrepare(l, Marshal(payload.op)), status |-> StatusOK]

\* LogPrepare that promotes the record it has just prepared.
LogPrepareCommitsAtOnce(l, payload, fail) ==
    IF fail = "read" THEN [log |-> l, status |-> StatusInternalServerError]
    ELSE IF payload.version # Inc(l.committed)
    THEN [log |-> l, status |-> StatusBadRequest]
    ELSE IF ~Validate(payload.op)
    THEN [log |-> l, status |-> StatusBadRequest]
    ELSE IF fail = "store" \/ ~StorePrepareOK(l)
    THEN [log |-> l, status |-> StatusInternalServerError]
    ELSE [log |-> StoreCommit(StorePrepare(l, Marshal(payload.op))), status |-> StatusOK]

LogPrepare(l, payload, fail) ==
    IF fail = "read" THEN [log |-> l, status |-> StatusInternalServerError]
    ELSE IF payload.version # Inc(l.committed)
    THEN [log |-> l, status |-> StatusBadRequest]
    ELSE IF ~Validate(payload.op)
    THEN [log |-> l, status |-> StatusBadRequest]
    ELSE IF fail = "store" \/ ~StorePrepareOK(l)
    THEN [log |-> l, status |-> StatusInternalServerError]
    ELSE [log |-> StorePrepare(l, Marshal(payload.op)), status |-> StatusOK]

\* LogCommit that applies the committed record twice.
LogCommitAppliesTwice(l, fail) ==
    IF fail = "store"
    THEN [log |-> l, status |-> StatusInternalServerError, apply |-> <<>>]
    ELSE LET l2 == StoreCommit(l) IN
         IF fail = "read"
         THEN [log |-> l2, status |-> StatusInternalServerError, apply |-> <<>>]
         ELSE IF l2.committed = 0
         THEN [log |-> l2, status |-> StatusOK, apply |-> <<>>]
         ELSE [log |-> l2,
               status |-> IF fail = "apply" THEN StatusInternalServerError ELSE StatusOK,
               apply |-> << <<l2.committed, Unmarshal(StoreGet(l2, l2.committed))>>,
                            <<l2.committed, Unmarshal(StoreGet(l2, l2.committed))>> >>]

\* LogCommit that calls Service.Apply before the store commit, so that a
\* failing Apply leaves the store untouched.
LogCommitAppliesFirst(l, fail) ==
    IF fail = "store"
    THEN [log |-> l, status |-> StatusInternalServerError, apply |-> <<>>]
    ELSE LET l2 == StoreCommit(l) IN
         IF fail = "read"
         THEN [log |-> l2, status |-> StatusInternalServerError, apply |-> <<>>]
         ELSE IF l2.committed = 0
         THEN [log |-> l2, status |-> StatusOK, apply |-> <<>>]
         ELSE IF fail = "apply"
         THEN [log |-> l, status |-> StatusInternalServerError,
               apply |-> << <<l2.committed, Unmarshal(StoreGet(l2, l2.committed))>> >>]
         ELSE [log |-> l2, status |-> StatusOK,
               apply |-> << <<l2.committed, Unmarshal(StoreGet(l2, l2.committed))>> >>]

\* apply is the sequence of Service.Apply calls made by this Commit.
LogCommit(l, fail) ==
    IF fail = "store"
    THEN [log |-> l, status |-> StatusInternalServerError, apply |-> <<>>]
    ELSE LET l2 == StoreCommit(l) IN
         IF fail = "read"
         THEN [log |-> l2, status |-> StatusInternalServerError, apply |-> <<>>]
         ELSE IF l2.committed = 0
         THEN [log |-> l2, status |-> StatusOK, apply |-> <<>>]
         ELSE [log |-> l2,
               status |-> IF fail = "apply" THEN StatusInternalServerError ELSE StatusOK,
               apply |-> << <<l2.committed, Unmarshal(StoreGet(l2, l2.committed))>> >>]

\* LogRollback that reports an error when nothing is prepared.
LogRollbackRefusesEmpty(l, fail) ==
    IF fail = "store" \/ l.prepared = 0
    THEN [log |-> l, status |-> StatusInternalServerError]
    ELSE [log |-> StoreRollback(l), status |-> StatusOK]

LogRollback(l, fail) ==
    IF fail = "store" THEN [log |-> l, status |-> StatusInternalServerError]
    ELSE [log |-> StoreRollback(l), status |-> StatusOK]

LogRecord(l, version, fail) ==
    IF fail = "read" \/ ~StoreGetOK(l, version)
    THEN [status |-> StatusInternalServerError, payload |-> NoPayload]
    ELSE [status |-> StatusOK, payload |-> Payload(version, Unmarshal(StoreGet(l, version)))]

----------------------------------------------------------------------------
(* client.LogClient: RPCs to the peer's /log/* handlers.  net is the fate  *)
(* of the HTTP request: "ok" (handled, reply received), "lost" (never      *)
(* handled, error) or "late" (handled, reply not received, error).         *)

NetRead == {"ok", "lost"}

NetWrite == {"ok", "lost", "late"}

\* LogClient.Committed: err is "nil", "notfound" (lm2log.ErrNotFound) or "other".
PeerCommitted(pl, net) ==
    LET h == LogCommitted(pl, "none") IN
    IF net # "ok" THEN [err |-> "other", payload |-> NoPayload]
    ELSE IF h.status = StatusNotFound THEN [err |-> "notfound", payload |-> NoPayload]
    ELSE [err |-> "nil", payload |-> h.payload]

\* LogClient.Prepared
PeerPrepared(pl, net) ==
    LET h == LogPrepared(pl, "none") IN
    IF net # "ok" THEN [err |-> "other", payload |-> NoPayload]
    ELSE IF h.status = StatusNotFound THEN [err |-> "notfound", payload |-> NoPayload]
    ELSE [err |-> "nil", payload |-> h.payload]

\* LogClient.GetRecord, served by GET /log/record/:id
PeerGetRecord(pl, version, net) ==
    LET h == LogRecord(pl, version, "none") IN
    IF net # "ok" \/ h.status # StatusOK THEN [ok |-> FALSE, payload |-> NoPayload]
    ELSE [ok |-> TRUE, payload |-> h.payload]

\* LogClient.Prepare, served by POST /log/prepare
PeerPrepare(pl, payload, net) ==
    LET h == LogPrepare(pl, payload, "none") IN
    IF net = "lost" THEN [log |-> pl, ok |-> FALSE]
    ELSE [log |-> h.log, ok |-> (net = "ok" /\ h.status = StatusOK)]

\* LogClient.Commit, served by POST /log/commit
PeerCommit(pl, net) ==
    LET h == LogCommit(pl, "none") IN
    IF net = "lost" THEN [log |-> pl, ok |-> FALSE]
    ELSE [log |-> h.log, ok |-> (net = "ok" /\ h.status = StatusOK)]

\* LogClient.Rollback, served by POST /log/rollback
PeerRollback(pl, net) ==
    IF net = "lost" THEN [log |-> pl, ok |-> FALSE]
    ELSE [log |-> StoreRollback(pl), ok |-> (net = "ok")]

----------------------------------------------------------------------------
(* State *)

VARIABLES
    hasPeer,     \* peer != "" (Doer.peer != nil)
    applyCommits,\* Log.applyCommits of the primary, set by NewLog
    th,          \* Doer.lock, Log.lock and each task's position between their calls
    llog,        \* the primary's store
    plog,        \* the peer's store
    applied,     \* Service.Apply calls seen by the primary's Service, in order
    peerInSync,  \* Doer.peerInSync
    alive,       \* FALSE once log.Fatalln has aborted the process
    spc,         \* NewDoer: position
    st,          \* NewDoer: local variables
    lock,        \* Doer.lock: the client inside Do, or 0
    do,          \* Doer.Do: position and local variables of the running call
    ypc,         \* syncPeer: position
    sy           \* syncPeer: local variables

vars == <<hasPeer, applyCommits, th, llog, plog, applied, peerInSync, alive, spc, st, lock, do, ypc, sy>>

InitOp == "a"

\* A store holding committed records 1..c and, when prep is an operation,
\* that operation prepared at c + 1.
StoreOf(c, prep) ==
    [committed |-> c,
     prepared |-> IF prep = NoOp THEN 0 ELSE c + 1,
     rec |-> [v \in RecIds |->
                IF v <= c THEN Marshal(InitOp)
                ELSE IF v = c + 1 /\ prep # NoOp THEN Marshal(prep)
                ELSE NoData]]

\* The local variables of NewDoer, and three history fields: the version and
\* operation of the record the primary's log held prepared when the process
\* started (bootV = 0 for none), and whether a goto SKIP_PEER was taken.
StartLocals ==
    [peerV |-> 0, localV |-> 0, i |-> 0, payload |-> NoPayload, peerPrep |-> 0,
     bootV |-> 0, bootOp |-> NoOp, skip |-> FALSE]

BootLocals(l) ==
    [StartLocals EXCEPT !.bootV = l.prepared,
                        !.bootOp = IF l.prepared = 0 THEN NoOp
                                   ELSE Unmarshal(StoreGet(l, l.prepared))]

IdleDo ==
    [pc |-> "idle", op |-> NoOp, version |-> 0, ignore |-> FALSE, tries |-> 0,
     err |-> StatusOK, startLog |-> EmptyStore, startInSync |-> FALSE,
     startApplied |-> 0, rpc |-> FALSE, locked |-> FALSE, unlocks |-> 0,
     at |-> "none", peerFailed |-> FALSE, prepareOK |-> FALSE, commitOK |-> FALSE]

\* The tasks of a node: a goroutine per Do call, the syncPeer goroutine, the
\* goroutines serving POST /log/commit, POST /log/rollback and
\* GET /log/record/:id, and the goroutine that runs NewDoer.
SyncTask == NumClients + 1
CommitTask == NumClients + 2
RollbackTask == NumClients + 3
RecordTask == NumClients + 4
StartTask == NumClients + 5
LockTasks == 1 .. StartTask

\* Both mutexes free (holder 0), no task inside a LogStore call, no task
\* touching peerInSync, and only NewDoer running.
NoThreads ==
    [dlock |-> 0, mu |-> 0, store |-> {}, acc |-> 0,
     pc |-> [t \in LockTasks |-> IF t = StartTask THEN "start" ELSE "off"]]

SyncLocals == [sleep |-> FALSE, peerV |-> 0, localV |-> 0, i |-> 0, payload |-> NoPayload]

\* The primary's log as found on disk, with the Apply calls its Service has
\* seen for the committed records.
InitLocal ==
    \E c \in 0 .. MaxInit, prep \in ValidOps \cup {NoOp} :
       /\ llog = StoreOf(c, prep)
       /\ applied = [v \in 1 .. c |-> <<v, InitOp>>]

\* The peer's log as found on disk, at most maxc records long.
InitPeer(maxc) ==
    IF hasPeer
    THEN \E c \in 0 .. maxc, prep \in ValidOps \cup {NoOp} : plog = StoreOf(c, prep)
    ELSE plog = EmptyStore

\* The process at the entry of NewDoer.
Booting ==
    /\ th = NoThreads
    /\ peerInSync = FALSE
    /\ alive = TRUE
    /\ spc = "start"
    /\ st = BootLocals(llog)
    /\ lock = 0
    /\ do = IdleDo
    /\ ypc = "off"
    /\ sy = SyncLocals

\* Log.Commit never reads applyCommits, so the primary is explored with one
\* value of it; Replica explores both.
Init ==
    /\ hasPeer \in BOOLEAN
    /\ applyCommits = TRUE
    /\ InitLocal
    /\ InitPeer(MaxInit)
    /\ Booting

----------------------------------------------------------------------------
(* NewDoer: startup reconciliation *)

StartVars == <<hasPeer, applyCommits, th, alive, lock, do, sy>>

\* peer == "": nothing to reconcile, doer.peerInSync = true
StartNoPeer ==
    /\ spc = "start" /\ ~hasPeer
    /\ peerInSync' = TRUE
    /\ spc' = "finalCommit"
    /\ UNCHANGED <<llog, plog, applied, st, ypc, StartVars>>

\* peerCommitted, err := doer.peer.Committed()
StartPeerCommittedOn(nets) ==
    /\ spc = "start" /\ hasPeer
    /\ \E net \in nets :
         LET r == PeerCommitted(plog, net) IN
         IF r.err = "other"
         THEN spc' = "finalCommit" /\ st' = [st EXCEPT !.skip = TRUE]
         ELSE spc' = "localCommitted" /\ st' = [st EXCEPT !.peerV = r.payload.version]
    /\ UNCHANGED <<llog, plog, applied, peerInSync, ypc, StartVars>>

StartPeerCommitted == StartPeerCommittedOn(NetRead)

\* localCommitted, err := commitLog.Committed(), then the branch on who is ahead
StartLocalCommitted ==
    /\ spc = "localCommitted"
    /\ \E fail \in {"none", "read"} :
         LET r == LogCommitted(llog, fail) IN
         IF r.status \notin {StatusOK, StatusNotFound}
         THEN spc' = "failed" /\ st' = st
         ELSE /\ st' = [st EXCEPT !.localV = r.payload.version,
                                   !.i = IF st.peerV <= r.payload.version
                                         THEN st.peerV ELSE r.payload.version]
              /\ spc' = IF st.peerV <= r.payload.version THEN "push" ELSE "pullRollback"
    /\ UNCHANGED <<llog, plog, applied, peerInSync, ypc, StartVars>>

\* peer behind: payload, err := commitLog.Record(i + 1)
StartPushRecord ==
    /\ spc = "push"
    /\ IF st.i = st.localV
       THEN spc' = "peerPrepared" /\ st' = st
       ELSE \E fail \in {"none", "read"} :
              LET r == LogRecord(llog, Inc(st.i), fail) IN
              IF r.status # StatusOK
              THEN spc' = "finalCommit" /\ st' = [st EXCEPT !.skip = TRUE]
              ELSE spc' = "pushPrepare" /\ st' = [st EXCEPT !.payload = r.payload]
    /\ UNCHANGED <<llog, plog, applied, peerInSync, ypc, StartVars>>

\* peer behind: err = doer.peer.Prepare(payload)
StartPushPrepareOn(nets) ==
    /\ spc = "pushPrepare"
    /\ \E net \in nets :
         LET r == PeerPrepare(plog, st.payload, net) IN
         /\ plog' = r.log
         /\ spc' = IF r.ok THEN "pushCommit" ELSE "finalCommit"
         /\ st' = [st EXCEPT !.skip = ~r.ok]
    /\ UNCHANGED <<llog, applied, peerInSync, ypc, StartVars>>

StartPushPrepare == StartPushPrepareOn(NetWrite)

\* peer behind: err = doer.peer.Commit()
StartPushCommitOn(nets) ==
    /\ spc = "pushCommit"
    /\ \E net \in nets :
         LET r == PeerCommit(plog, net) IN
         /\ plog' = r.log
         /\ IF r.ok
            THEN spc' = "push" /\ st' = [st EXCEPT !.i = Inc(st.i)]
            ELSE spc' = "finalCommit" /\ st' = [st EXCEPT !.skip = TRUE]
    /\ UNCHANGED <<llog, applied, peerInSync, ypc, StartVars>>

StartPushCommit == StartPushCommitOn(NetWrite)

\* StartPullRollback that leaves the local prepared record in place.
StartPullRollbackSkipped ==
    /\ spc = "pullRollback"
    /\ spc' = "pull"
    /\ UNCHANGED <<llog, plog, applied, peerInSync, st, ypc, StartVars>>

\* StartPullRollback that promotes the local prepared record instead of
\* discarding it.
StartPullRollbackCommits ==
    /\ spc = "pullRollback"
    /\ llog' = StoreCommit(llog)
    /\ spc' = "pull"
    /\ UNCHANGED <<plog, applied, peerInSync, st, ypc, StartVars>>

\* peer ahead: err = commitLog.Rollback()
StartPullRollback ==
    /\ spc = "pullRollback"
    /\ \E fail \in {"none", "store"} :
         LET r == LogRollback(llog, fail) IN
         /\ llog' = r.log
         /\ spc' = IF r.status = StatusOK THEN "pull" ELSE "failed"
    /\ UNCHANGED <<plog, applied, peerInSync, st, ypc, StartVars>>

\* peer ahead: payload, err := doer.peer.GetRecord(i + 1)
StartPullGetOn(nets) ==
    /\ spc = "pull"
    /\ IF st.i = st.peerV
       THEN spc' = "peerPrepared" /\ st' = st
       ELSE \E net \in nets :
              LET r == PeerGetRecord(plog, Inc(st.i), net) IN
              IF r.ok
              THEN spc' = "pullPrepare" /\ st' = [st EXCEPT !.payload = r.payload]
              ELSE spc' = "failed" /\ st' = st
    /\ UNCHANGED <<llog, plog, applied, peerInSync, ypc, StartVars>>

StartPullGet == StartPullGetOn(NetRead)

\* peer ahead: err = commitLog.Prepare(payload)
StartPullPrepare ==
    /\ spc = "pullPrepare"
    /\ \E fail \in {"none", "read", "store"} :
         LET r == LogPrepare(llog, st.payload, fail) IN
         /\ llog' = r.log
         /\ spc' = IF r.status = StatusOK THEN "pullCommit" ELSE "failed"
    /\ UNCHANGED <<plog, applied, peerInSync, st, ypc, StartVars>>

\* peer ahead: err = commitLog.Commit()
StartPullCommit ==
    /\ spc = "pullCommit"
    /\ \E fail \in {"none", "store", "read", "apply"} :
         LET r == LogCommit(llog, fail) IN
         /\ llog' = r.log
         /\ applied' = applied \o r.apply
         /\ IF r.status = StatusOK
            THEN spc' = "pull" /\ st' = [st EXCEPT !.i = Inc(st.i)]
            ELSE spc' = "failed" /\ st' = st
    /\ UNCHANGED <<plog, peerInSync, ypc, StartVars>>

\* StartPeerPrepared that returns the RPC's error from NewDoer.
StartPeerPreparedAbortsOnError ==
    /\ spc = "peerPrepared"
    /\ \E net \in NetRead :
         LET r == PeerPrepared(plog, net) IN
         IF r.err = "other"
         THEN spc' = "failed" /\ st' = st
         ELSE spc' = "localPrepared" /\ st' = [st EXCEPT !.peerPrep = r.payload.version]
    /\ UNCHANGED <<llog, plog, applied, peerInSync, ypc, StartVars>>

\* peerPrepared, err := doer.peer.Prepared()
StartPeerPreparedOn(nets) ==
    /\ spc = "peerPrepared"
    /\ \E net \in nets :
         LET r == PeerPrepared(plog, net) IN
         IF r.err = "other"
         THEN spc' = "finalCommit" /\ st' = [st EXCEPT !.skip = TRUE]
         ELSE spc' = "localPrepared" /\ st' = [st EXCEPT !.peerPrep = r.payload.version]
    /\ UNCHANGED <<llog, plog, applied, peerInSync, ypc, StartVars>>

StartPeerPrepared == StartPeerPreparedOn(NetRead)

\* localPrepared, err := commitLog.Prepared(), then the test whether to roll back
StartLocalPrepared ==
    /\ spc = "localPrepared"
    /\ \E fail \in {"none", "read"} :
         LET r == LogPrepared(llog, fail) IN
         IF r.status \notin {StatusOK, StatusNotFound}
         THEN spc' = "failed" /\ peerInSync' = peerInSync
         ELSE IF r.payload.version > 0 \/ st.peerPrep > 0
         THEN spc' = "rollbackLocal" /\ peerInSync' = peerInSync
         ELSE spc' = "finalCommit" /\ peerInSync' = TRUE
    /\ UNCHANGED <<llog, plog, applied, st, ypc, StartVars>>

\* StartRollbackLocal that leaves the local prepared record in place.
StartRollbackLocalKeepsRecord ==
    /\ spc = "rollbackLocal"
    /\ \E fail \in {"none", "store"} :
         /\ llog' = llog
         /\ spc' = IF fail = "none" THEN "rollbackPeer" ELSE "failed"
    /\ UNCHANGED <<plog, applied, peerInSync, st, ypc, StartVars>>

\* err = commitLog.Rollback()
StartRollbackLocal ==
    /\ spc = "rollbackLocal"
    /\ \E fail \in {"none", "store"} :
         LET r == LogRollback(llog, fail) IN
         /\ llog' = r.log
         /\ spc' = IF r.status = StatusOK THEN "rollbackPeer" ELSE "failed"
    /\ UNCHANGED <<plog, applied, peerInSync, st, ypc, StartVars>>

\* StartRollbackPeer that declares the peer in sync whatever the RPC returned.
StartRollbackPeerIgnoresError ==
    /\ spc = "rollbackPeer"
    /\ \E net \in NetWrite :
         LET r == PeerRollback(plog, net) IN
         /\ plog' = r.log
         /\ peerInSync' = TRUE
         /\ st' = [st EXCEPT !.skip = ~r.ok]
         /\ spc' = "finalCommit"
    /\ UNCHANGED <<llog, applied, ypc, StartVars>>

\* err = doer.peer.Rollback(); on success doer.peerInSync = true
StartRollbackPeerOn(nets) ==
    /\ spc = "rollbackPeer"
    /\ \E net \in nets :
         LET r == PeerRollback(plog, net) IN
         /\ plog' = r.log
         /\ peerInSync' = r.ok
         /\ st' = [st EXCEPT !.skip = ~r.ok]
         /\ spc' = "finalCommit"
    /\ UNCHANGED <<llog, applied, ypc, StartVars>>

StartRollbackPeer == StartRollbackPeerOn(NetWrite)

\* StartFinalCommit without the Commit: NewDoer returns the Doer at once.
StartFinalCommitSkipped ==
    /\ spc = "finalCommit"
    /\ spc' = "done" /\ ypc' = "top"
    /\ st' = StartLocals
    /\ UNCHANGED <<llog, applied, plog, peerInSync, StartVars>>

\* SKIP_PEER: err := commitLog.Commit(); go doer.syncPeer(); return doer, nil
StartFinalCommit ==
    /\ spc = "finalCommit"
    /\ \E fail \in {"none", "store", "read", "apply"} :
         LET r == LogCommit(llog, fail) IN
         /\ llog' = r.log
         /\ applied' = applied \o r.apply
         /\ IF r.status = StatusOK
            THEN spc' = "done" /\ ypc' = "top"
            ELSE spc' = "failed" /\ ypc' = ypc
    /\ st' = StartLocals
    /\ UNCHANGED <<plog, peerInSync, StartVars>>

NewDoer ==
    \/ StartNoPeer
    \/ StartPeerCommitted
    \/ StartLocalCommitted
    \/ StartPushRecord
    \/ StartPushPrepare
    \/ StartPushCommit
    \/ StartPullRollback
    \/ StartPullGet
    \/ StartPullPrepare
    \/ StartPullCommit
    \/ StartPeerPrepared
    \/ StartLocalPrepared
    \/ StartRollbackLocal
    \/ StartRollbackPeer
    \/ StartFinalCommit

----------------------------------------------------------------------------
(* Doer.Do: the write path.  The whole call runs under Doer.lock.  A step  *)
(* that ends in a return statement also runs the deferred UnlockResources   *)
(* (counted in do.unlocks); the deferred d.lock.Unlock() is DoReturn.       *)

\* Payload versions a client sends with ignore-version=false: the next
\* version of the log, or the stale current one.
DoVersions == {llog.committed, Inc(llog.committed)}

DoPayload == Payload(do.version, do.op)

\* DoBegin without d.lock.Lock(): a call starts while another is under way.
DoBeginWithoutLock(c) ==
    /\ spc = "done" /\ alive /\ do.pc # "done"
    /\ llog.committed < MaxVersion
    /\ \E op \in Ops, ignore \in BOOLEAN :
         \E version \in DoVersions :
            do' = [IdleDo EXCEPT !.pc = "lockResources", !.op = op, !.version = version,
                                 !.ignore = ignore, !.startLog = llog,
                                 !.startInSync = peerInSync,
                                 !.startApplied = Len(applied)]
    /\ lock' = c
    /\ UNCHANGED <<hasPeer, applyCommits, th, llog, plog, applied, peerInSync, alive, spc, st, ypc, sy>>

\* d.lock.Lock() on entry of Do(p, ignoreVersion)
DoBegin(c) ==
    /\ spc = "done" /\ alive /\ lock = 0 /\ do.pc = "idle"
    /\ llog.committed < MaxVersion
    /\ \E op \in Ops, ignore \in BOOLEAN :
         \E version \in DoVersions :
            do' = [IdleDo EXCEPT !.pc = "lockResources", !.op = op, !.version = version,
                                 !.ignore = ignore, !.startLog = llog,
                                 !.startInSync = peerInSync,
                                 !.startApplied = Len(applied)]
    /\ lock' = c
    /\ UNCHANGED <<hasPeer, applyCommits, th, llog, plog, applied, peerInSync, alive, spc, st, ypc, sy>>

\* DoLockResources that goes on after a refusal.
DoLockResourcesIgnoresRefusal ==
    /\ alive /\ do.pc = "lockResources"
    /\ \E granted \in BOOLEAN : do' = [do EXCEPT !.pc = "committed", !.locked = granted]
    /\ UNCHANGED <<hasPeer, applyCommits, th, llog, plog, applied, peerInSync, alive, spc, st, lock, ypc, sy>>

\* DoLockResources whose UnlockResources is deferred before the refusal is
\* looked at.
DoLockResourcesUnlocksAfterRefusal ==
    /\ alive /\ do.pc = "lockResources"
    /\ \E granted \in BOOLEAN :
         IF granted
         THEN do' = [do EXCEPT !.pc = "committed", !.locked = TRUE]
         ELSE do' = [do EXCEPT !.pc = "done", !.unlocks = 1,
                               !.err = StatusServiceUnavailable, !.at = "lockResources"]
    /\ UNCHANGED <<hasPeer, applyCommits, th, llog, plog, applied, peerInSync, alive, spc, st, lock, ypc, sy>>

\* err := d.commitLog.LockResources(p.Op)
DoLockResources ==
    /\ alive /\ do.pc = "lockResources"
    /\ \E granted \in BOOLEAN :
         IF granted
         THEN do' = [do EXCEPT !.pc = "committed", !.locked = TRUE]
         ELSE do' = [do EXCEPT !.pc = "done", !.err = StatusServiceUnavailable,
                               !.at = "lockResources"]
    /\ UNCHANGED <<hasPeer, applyCommits, th, llog, plog, applied, peerInSync, alive, spc, st, lock, ypc, sy>>

\* DoCommitted that returns every error of Committed(), the NotFound of an
\* empty log included.
DoCommittedReturnsNotFound ==
    /\ alive /\ do.pc = "committed"
    /\ \E fail \in {"none", "read"} :
         LET r == LogCommitted(llog, fail) IN
         IF r.status # StatusOK
         THEN do' = [do EXCEPT !.pc = "done", !.unlocks = 1, !.err = r.status, !.at = "committed"]
         ELSE do' = [do EXCEPT !.pc = "prepare",
                               !.version = IF do.ignore THEN Inc(r.payload.version)
                                           ELSE do.version]
    /\ UNCHANGED <<hasPeer, applyCommits, th, llog, plog, applied, peerInSync, alive, spc, st, lock, ypc, sy>>

\* committedPayload, err := d.commitLog.Committed(); the ignoreVersion overwrite
DoCommitted ==
    /\ alive /\ do.pc = "committed"
    /\ \E fail \in {"none", "read"} :
         LET r == LogCommitted(llog, fail) IN
         IF r.status # StatusOK /\ ~r.errNil
         THEN do' = [do EXCEPT !.pc = "done", !.unlocks = 1, !.err = r.status, !.at = "committed"]
         ELSE do' = [do EXCEPT !.pc = "prepare",
                               !.version = IF do.ignore THEN Inc(r.payload.version)
                                           ELSE do.version]
    /\ UNCHANGED <<hasPeer, applyCommits, th, llog, plog, applied, peerInSync, alive, spc, st, lock, ypc, sy>>

\* err = d.commitLog.Prepare(p)
DoPrepare ==
    /\ alive /\ do.pc = "prepare"
    /\ \E fail \in {"none", "read", "store"} :
         LET r == LogPrepare(llog, DoPayload, fail) IN
         /\ llog' = r.log
         /\ IF r.status # StatusOK
            THEN do' = [do EXCEPT !.pc = "done", !.unlocks = 1, !.err = r.status,
                                  !.at = IF fail = "read" THEN "prepareRead" ELSE "prepare"]
            ELSE do' = [do EXCEPT !.pc = IF hasPeer /\ peerInSync THEN "peerPrepare"
                                         ELSE "commit",
                                  !.tries = 0, !.prepareOK = TRUE]
    /\ UNCHANGED <<hasPeer, applyCommits, th, plog, applied, peerInSync, alive, spc, st, lock, ypc, sy>>

\* DoPeerPrepare that gives the peer up after the first failed attempt.
DoPeerPrepareGivesUpAtOnce ==
    /\ alive /\ do.pc = "peerPrepare"
    /\ \E net \in NetWrite :
         LET r == PeerPrepare(plog, DoPayload, net) IN
         /\ plog' = r.log
         /\ IF r.ok
            THEN /\ do' = [do EXCEPT !.pc = "commit", !.rpc = TRUE, !.tries = 0]
                 /\ peerInSync' = peerInSync
            ELSE /\ do' = [do EXCEPT !.pc = "commit", !.rpc = TRUE, !.tries = 0,
                                     !.peerFailed = TRUE]
                 /\ peerInSync' = FALSE
    /\ UNCHANGED <<hasPeer, applyCommits, th, llog, applied, alive, spc, st, lock, ypc, sy>>

\* one attempt of err = d.peer.Prepare(p); after the last, d.peerInSync = false
DoPeerPrepareOn(nets) ==
    /\ alive /\ do.pc = "peerPrepare"
    /\ \E net \in nets :
         LET r == PeerPrepare(plog, DoPayload, net) IN
         /\ plog' = r.log
         /\ IF r.ok
            THEN /\ do' = [do EXCEPT !.pc = "commit", !.rpc = TRUE, !.tries = 0]
                 /\ peerInSync' = peerInSync
            ELSE IF do.tries + 1 < MaxTries
            THEN /\ do' = [do EXCEPT !.rpc = TRUE, !.tries = do.tries + 1]
                 /\ peerInSync' = peerInSync
            ELSE /\ do' = [do EXCEPT !.pc = "commit", !.rpc = TRUE, !.tries = 0,
                                     !.peerFailed = TRUE]
                 /\ peerInSync' = FALSE
    /\ UNCHANGED <<hasPeer, applyCommits, th, llog, applied, alive, spc, st, lock, ypc, sy>>

DoPeerPrepare == DoPeerPrepareOn(NetWrite)

\* DoCommit followed by a peer.Commit whenever a peer is configured, in
\* sync or not.
DoCommitIgnoresPeerInSync ==
    /\ alive /\ do.pc = "commit"
    /\ \E fail \in {"none", "store", "read", "apply"} :
         LET r == LogCommit(llog, fail) IN
         /\ llog' = r.log
         /\ applied' = applied \o r.apply
         /\ IF r.status # StatusOK
            THEN do' = [do EXCEPT !.pc = "rollback", !.err = r.status, !.at = "commit"]
            ELSE do' = [do EXCEPT !.pc = IF hasPeer THEN "peerCommit" ELSE "done",
                                  !.unlocks = IF hasPeer THEN 0 ELSE 1,
                                  !.tries = 0, !.commitOK = TRUE, !.at = "end"]
    /\ UNCHANGED <<hasPeer, applyCommits, th, plog, peerInSync, alive, spc, st, lock, ypc, sy>>

\* err = d.commitLog.Commit()
DoCommit ==
    /\ alive /\ do.pc = "commit"
    /\ \E fail \in {"none", "store", "read", "apply"} :
         LET r == LogCommit(llog, fail) IN
         /\ llog' = r.log
         /\ applied' = applied \o r.apply
         /\ IF r.status # StatusOK
            THEN do' = [do EXCEPT !.pc = "rollback", !.err = r.status, !.at = "commit"]
            ELSE do' = [do EXCEPT !.pc = IF hasPeer /\ peerInSync THEN "peerCommit"
                                         ELSE "done",
                                  !.unlocks = IF hasPeer /\ peerInSync THEN 0 ELSE 1,
                                  !.tries = 0, !.commitOK = TRUE, !.at = "end"]
    /\ UNCHANGED <<hasPeer, applyCommits, th, plog, peerInSync, alive, spc, st, lock, ypc, sy>>

\* DoRollback that returns the commit error even when the Rollback failed.
DoRollbackIgnoresFailure ==
    /\ alive /\ do.pc = "rollback"
    /\ \E fail \in {"none", "store"} :
         LET r == LogRollback(llog, fail) IN
         /\ llog' = r.log
         /\ do' = [do EXCEPT !.pc = "done", !.unlocks = 1] /\ alive' = alive
    /\ UNCHANGED <<hasPeer, applyCommits, th, plog, applied, peerInSync, spc, st, lock, ypc, sy>>

\* rollbackErr := d.commitLog.Rollback(); log.Fatalln if it fails; return err
DoRollback ==
    /\ alive /\ do.pc = "rollback"
    /\ \E fail \in {"none", "store"} :
         LET r == LogRollback(llog, fail) IN
         /\ llog' = r.log
         /\ IF r.status = StatusOK
            THEN do' = [do EXCEPT !.pc = "done", !.unlocks = 1] /\ alive' = alive
            ELSE do' = [do EXCEPT !.pc = "fatal"] /\ alive' = FALSE
    /\ UNCHANGED <<hasPeer, applyCommits, th, plog, applied, peerInSync, spc, st, lock, ypc, sy>>

\* DoPeerCommit that returns the peer's error to the client after the last
\* failed attempt.
DoPeerCommitReturnsError ==
    /\ alive /\ do.pc = "peerCommit"
    /\ \E net \in NetWrite :
         LET r == PeerCommit(plog, net) IN
         /\ plog' = r.log
         /\ IF r.ok
            THEN /\ do' = [do EXCEPT !.pc = "done", !.unlocks = 1, !.rpc = TRUE, !.tries = 0]
                 /\ peerInSync' = peerInSync
            ELSE IF do.tries + 1 < MaxTries
            THEN /\ do' = [do EXCEPT !.rpc = TRUE, !.tries = do.tries + 1]
                 /\ peerInSync' = peerInSync
            ELSE /\ do' = [do EXCEPT !.pc = "done", !.unlocks = 1, !.rpc = TRUE, !.tries = 0,
                                     !.peerFailed = TRUE,
                                     !.err = StatusInternalServerError]
                 /\ peerInSync' = FALSE
    /\ UNCHANGED <<hasPeer, applyCommits, th, llog, applied, alive, spc, st, lock, ypc, sy>>

\* one attempt of err = d.peer.Commit(); after the last, d.peerInSync = false
DoPeerCommitOn(nets) ==
    /\ alive /\ do.pc = "peerCommit"
    /\ \E net \in nets :
         LET r == PeerCommit(plog, net) IN
         /\ plog' = r.log
         /\ IF r.ok
            THEN /\ do' = [do EXCEPT !.pc = "done", !.unlocks = 1, !.rpc = TRUE, !.tries = 0]
                 /\ peerInSync' = peerInSync
            ELSE IF do.tries + 1 < MaxTries
            THEN /\ do' = [do EXCEPT !.rpc = TRUE, !.tries = do.tries + 1]
                 /\ peerInSync' = peerInSync
            ELSE /\ do' = [do EXCEPT !.pc = "done", !.unlocks = 1, !.rpc = TRUE, !.tries = 0,
                                     !.peerFailed = TRUE]
                 /\ peerInSync' = FALSE
    /\ UNCHANGED <<hasPeer, applyCommits, th, llog, applied, alive, spc, st, lock, ypc, sy>>

DoPeerCommit == DoPeerCommitOn(NetWrite)

\* deferred d.lock.Unlock(); Do returns do.err to its caller
DoReturn ==
    /\ alive /\ do.pc = "done"
    /\ do' = IdleDo
    /\ lock' = 0
    /\ UNCHANGED <<hasPeer, applyCommits, th, llog, plog, applied, peerInSync, alive, spc, st, ypc, sy>>

Do ==
    \/ \E c \in Clients : DoBegin(c)
    \/ DoLockResources
    \/ DoCommitted
    \/ DoPrepare
    \/ DoPeerPrepare
    \/ DoCommit
    \/ DoRollback
    \/ DoPeerCommit
    \/ DoReturn

----------------------------------------------------------------------------
(* Doer.syncPeer: the background catch-up loop *)

SyncVars == <<hasPeer, applyCommits, th, llog, applied, alive, spc, st, lock, do>>

\* if d.peer == nil { return }
SyncExit ==
    /\ alive /\ ypc = "top" /\ ~hasPeer
    /\ ypc' = "exited"
    /\ UNCHANGED <<plog, peerInSync, sy, SyncVars>>

\* SyncTop without the test of d.peerInSync: every pass goes on to the
\* peer.
SyncTopIgnoresInSync ==
    /\ alive /\ ypc = "top" /\ hasPeer /\ lock = 0
    /\ ypc' = "rollback" /\ sy' = SyncLocals
    /\ UNCHANGED <<plog, peerInSync, SyncVars>>

\* d.lock.Lock(); if d.peerInSync { sleep = true; continue }; d.lock.Unlock()
SyncTop ==
    /\ alive /\ ypc = "top" /\ hasPeer /\ lock = 0
    /\ IF peerInSync
       THEN ypc' = "top" /\ sy' = [SyncLocals EXCEPT !.sleep = TRUE]
       ELSE ypc' = "rollback" /\ sy' = SyncLocals
    /\ UNCHANGED <<plog, peerInSync, SyncVars>>

\* d.peer.Rollback(), its error ignored
SyncRollbackOn(nets) ==
    /\ alive /\ ypc = "rollback"
    /\ \E net \in nets : plog' = PeerRollback(plog, net).log
    /\ ypc' = "peerCommitted"
    /\ UNCHANGED <<peerInSync, sy, SyncVars>>

SyncRollback == SyncRollbackOn(NetWrite)

\* peerCommitted, err := d.peer.Committed()
SyncPeerCommittedOn(nets) ==
    /\ alive /\ ypc = "peerCommitted"
    /\ \E net \in nets :
         LET r == PeerCommitted(plog, net) IN
         IF r.err = "other"
         THEN ypc' = "top" /\ sy' = [SyncLocals EXCEPT !.sleep = TRUE]
         ELSE ypc' = "check" /\ sy' = [sy EXCEPT !.peerV = r.payload.version]
    /\ UNCHANGED <<plog, peerInSync, SyncVars>>

SyncPeerCommitted == SyncPeerCommittedOn(NetRead)

\* SyncCheck that declares the peer in sync when it is at or behind the
\* primary's version.
SyncCheckDeclaresWhenBehind ==
    /\ alive /\ ypc = "check" /\ lock = 0
    /\ \E fail \in {"none", "read"} :
         LET r == LogCommitted(llog, fail) IN
         IF r.status # StatusOK
         THEN ypc' = "top" /\ sy' = [SyncLocals EXCEPT !.sleep = TRUE]
              /\ peerInSync' = peerInSync
         ELSE IF r.payload.version >= sy.peerV
         THEN ypc' = "top" /\ sy' = [sy EXCEPT !.localV = r.payload.version]
              /\ peerInSync' = TRUE
         ELSE ypc' = "loop" /\ sy' = [sy EXCEPT !.localV = r.payload.version,
                                                  !.i = sy.peerV]
              /\ peerInSync' = peerInSync
    /\ UNCHANGED <<plog, SyncVars>>

\* under d.lock: localCommitted, err := d.commitLog.Committed(); the comparison
SyncCheckOn(fails) ==
    /\ alive /\ ypc = "check" /\ lock = 0
    /\ \E fail \in fails :
         LET r == LogCommitted(llog, fail) IN
         IF r.status # StatusOK
         THEN ypc' = "top" /\ sy' = [SyncLocals EXCEPT !.sleep = TRUE]
              /\ peerInSync' = peerInSync
         ELSE IF r.payload.version = sy.peerV
         THEN ypc' = "top" /\ sy' = [sy EXCEPT !.localV = r.payload.version]
              /\ peerInSync' = TRUE
         ELSE ypc' = "loop" /\ sy' = [sy EXCEPT !.localV = r.payload.version,
                                                  !.i = sy.peerV]
              /\ peerInSync' = peerInSync
    /\ UNCHANGED <<plog, SyncVars>>

SyncCheck == SyncCheckOn({"none", "read"})

\* SyncLoopRecord that sets d.peerInSync = true when the catch-up loop ends.
SyncLoopRecordDeclaresAtEnd ==
    /\ alive /\ ypc = "loop"
    /\ IF sy.i = sy.localV
       THEN ypc' = "top" /\ sy' = [SyncLocals EXCEPT !.sleep = sy.sleep]
            /\ peerInSync' = TRUE
       ELSE /\ peerInSync' = peerInSync
            /\ \E fail \in {"none", "read"} :
                 LET r == LogRecord(llog, Inc(sy.i), fail) IN
                 IF r.status # StatusOK
                 THEN ypc' = "loop" /\ sy' = [sy EXCEPT !.sleep = TRUE, !.i = Inc(sy.i)]
                 ELSE ypc' = "loopPrepare" /\ sy' = [sy EXCEPT !.payload = r.payload]
    /\ UNCHANGED <<plog, SyncVars>>

\* for i != localCommittedVersion: payload, err := d.commitLog.Record(i + 1)
SyncLoopRecordOn(fails) ==
    /\ alive /\ ypc = "loop"
    /\ IF sy.i = sy.localV
       THEN ypc' = "top" /\ sy' = [SyncLocals EXCEPT !.sleep = sy.sleep]
       ELSE \E fail \in fails :
              LET r == LogRecord(llog, Inc(sy.i), fail) IN
              IF r.status # StatusOK
              THEN ypc' = "loop" /\ sy' = [sy EXCEPT !.sleep = TRUE, !.i = Inc(sy.i)]
              ELSE ypc' = "loopPrepare" /\ sy' = [sy EXCEPT !.payload = r.payload]
    /\ UNCHANGED <<plog, peerInSync, SyncVars>>

SyncLoopRecord == SyncLoopRecordOn({"none", "read"})

\* err = d.peer.Prepare(payload)
SyncLoopPrepareOn(nets) ==
    /\ alive /\ ypc = "loopPrepare"
    /\ \E net \in nets :
         LET r == PeerPrepare(plog, sy.payload, net) IN
         /\ plog' = r.log
         /\ IF r.ok
            THEN ypc' = "loopCommit" /\ sy' = sy
            ELSE ypc' = "loop"
                 /\ sy' = [sy EXCEPT !.sleep = TRUE, !.i = Inc(sy.i), !.payload = NoPayload]
    /\ UNCHANGED <<peerInSync, SyncVars>>

SyncLoopPrepare == SyncLoopPrepareOn(NetWrite)

\* err = d.peer.Commit()
SyncLoopCommitOn(nets) ==
    /\ alive /\ ypc = "loopCommit"
    /\ \E net \in nets :
         LET r == PeerCommit(plog, net) IN
         /\ plog' = r.log
         /\ sy' = [sy EXCEPT !.sleep = (sy.sleep \/ ~r.ok), !.i = Inc(sy.i),
                             !.payload = NoPayload]
    /\ ypc' = "loop"
    /\ UNCHANGED <<peerInSync, SyncVars>>

SyncLoopCommit == SyncLoopCommitOn(NetWrite)

SyncPeer ==
    \/ SyncExit
    \/ SyncTop
    \/ SyncRollback
    \/ SyncPeerCommitted
    \/ SyncCheck
    \/ SyncLoopRecord
    \/ SyncLoopPrepare
    \/ SyncLoopCommit

----------------------------------------------------------------------------

Next == NewDoer \/ Do \/ SyncPeer

Spec == Init /\ [][Next]_vars

\* Startup alone, over a wider range of peer logs: NewDoer runs to its return
\* before any Do is served and before syncPeer is started.
InitStartup ==
    /\ hasPeer \in BOOLEAN
    /\ applyCommits = TRUE
    /\ InitLocal
    /\ InitPeer(MaxInit + MaxAhead)
    /\ Booting

StartupSpec == InitStartup /\ [][NewDoer]_vars

\* The fate of an RPC when the peer and the network work.
Reliable == {"ok"}

\* The whole program with a peer and a network that answer every request:
\* an RPC returns an error only when the peer's handler does.
NewDoerReliable ==
    \/ StartNoPeer
    \/ StartPeerCommittedOn(Reliable)
    \/ StartLocalCommitted
    \/ StartPushRecord
    \/ StartPushPrepareOn(Reliable)
    \/ StartPushCommitOn(Reliable)
    \/ StartPullRollback
    \/ StartPullGetOn(Reliable)
    \/ StartPullPrepare
    \/ StartPullCommit
    \/ StartPeerPreparedOn(Reliable)
    \/ StartLocalPrepared
    \/ StartRollbackLocal
    \/ StartRollbackPeerOn(Reliable)
    \/ StartFinalCommit

DoReliable ==
    \/ \E c \in Clients : DoBegin(c)
    \/ DoLockResources
    \/ DoCommitted
    \/ DoPrepare
    \/ DoPeerPrepareOn(Reliable)
    \/ DoCommit
    \/ DoRollback
    \/ DoPeerCommitOn(Reliable)
    \/ DoReturn

SyncPeerReliable ==
    \/ SyncExit
    \/ SyncTop
    \/ SyncRollbackOn(Reliable)
    \/ SyncPeerCommittedOn(Reliable)
    \/ SyncCheck
    \/ SyncLoopRecord
    \/ SyncLoopPrepareOn(Reliable)
    \/ SyncLoopCommitOn(Reliable)

NextReliable == NewDoerReliable \/ DoReliable \/ SyncPeerReliable

ReliableSpec == Init /\ [][NextReliable]_vars

\* A node without a peer whose log is driven through its /log/* routes, as
\* a primary drives its replica.  The routes are served once New has
\* returned.
InitReplica ==
    /\ hasPeer = FALSE
    /\ applyCommits \in BOOLEAN
    /\ \E c \in 0 .. MaxInit, prep \in ValidOps \cup {NoOp} :
          /\ llog = StoreOf(c, prep)
          /\ applied = IF applyCommits THEN [v \in 1 .. c |-> <<v, InitOp>>] ELSE <<>>
    /\ plog = EmptyStore
    /\ Booting

ServeVars == <<hasPeer, applyCommits, th, plog, peerInSync, alive, spc, st, lock, do, ypc, sy>>

\* POST /log/prepare: err = l.Prepare(preparePayload)
ServePrepare ==
    /\ spc = "done" /\ alive /\ llog.committed < MaxVersion
    /\ \E version \in DoVersions, op \in Ops, fail \in {"none", "read", "store"} :
         llog' = LogPrepare(llog, Payload(version, op), fail).log
    /\ UNCHANGED <<applied, ServeVars>>

\* POST /log/commit: err := l.Commit()
ServeCommit ==
    /\ spc = "done" /\ alive /\ Len(applied) < MaxApplies
    /\ \E fail \in {"none", "store", "read", "apply"} :
         LET r == LogCommit(llog, fail) IN
         /\ llog' = r.log
         /\ applied' = applied \o r.apply
    /\ UNCHANGED ServeVars

\* POST /log/rollback: err := commitLog.Rollback(), on the store directly
ServeRollback ==
    /\ spc = "done" /\ alive
    /\ llog' = StoreRollback(llog)
    /\ UNCHANGED <<applied, ServeVars>>

Replica ==
    \/ StartNoPeer
    \/ StartFinalCommit
    \/ SyncExit
    \/ ServePrepare
    \/ ServeCommit
    \/ ServeRollback

ReplicaSpec == InitReplica /\ [][Replica]_vars

\* The sync loop alone while nothing fails and no Do is submitted, from the
\* state in which NewDoer has returned after a goto SKIP_PEER, or a Do has
\* given up on the peer: the peer holds a prefix of the primary's log and
\* possibly a prepared record.
InitSync ==
    /\ hasPeer = TRUE
    /\ applyCommits = TRUE
    /\ \E c \in 0 .. (MaxVersion + MaxAhead) :
          /\ llog = StoreOf(c, NoOp)
          /\ applied = [v \in 1 .. c |-> <<v, InitOp>>]
          /\ \E pc \in 0 .. c, prep \in ValidOps \cup {NoOp} : plog = StoreOf(pc, prep)
    /\ th = NoThreads
    /\ peerInSync = FALSE
    /\ alive = TRUE
    /\ spc = "done"
    /\ st = StartLocals
    /\ lock = 0
    /\ do = IdleDo
    /\ ypc = "top"
    /\ sy = SyncLocals

SyncQuiet ==
    \/ SyncTop
    \/ SyncRollbackOn(Reliable)
    \/ SyncPeerCommittedOn(Reliable)
    \/ SyncCheckOn({"none"})
    \/ SyncLoopRecordOn({"none"})
    \/ SyncLoopPrepareOn(Reliable)
    \/ SyncLoopCommitOn(Reliable)

\* syncPeer is a goroutine of its own that only sleeps between passes.
SyncFairSpec == InitSync /\ [][SyncQuiet]_vars /\ WF_vars(SyncQuiet)

\* The sync loop alone, with its failures, from the state in which NewDoer
\* has returned after a goto SKIP_PEER taken because the peer did not
\* answer: the peer's log is whatever its disk holds, up to MaxAhead
\* versions ahead of the primary's.
InitSyncAhead ==
    /\ hasPeer = TRUE
    /\ applyCommits = TRUE
    /\ \E c \in 0 .. MaxInit :
          /\ llog = StoreOf(c, NoOp)
          /\ applied = [v \in 1 .. c |-> <<v, InitOp>>]
    /\ InitPeer(MaxInit + MaxAhead)
    /\ th = NoThreads
    /\ peerInSync = FALSE
    /\ alive = TRUE
    /\ spc = "done"
    /\ st = StartLocals
    /\ lock = 0
    /\ do = IdleDo
    /\ ypc = "top"
    /\ sy = SyncLocals

SyncLoop ==
    \/ SyncTop
    \/ SyncRollback
    \/ SyncPeerCommitted
    \/ SyncCheck
    \/ SyncLoopRecord
    \/ SyncLoopPrepare
    \/ SyncLoopCommit

SyncAheadSpec == InitSyncAhead /\ [][SyncLoop]_vars

----------------------------------------------------------------------------
(* The two mutexes.  Each task is followed from one Lock, Unlock or LogStore
   call to the next: th.dlock and th.mu are the holders of Doer.lock and
   Log.lock, th.store the tasks inside a call on the LogStore, th.acc the
   task whose last step read or wrote peerInSync.  A task at "wantD" or
   "wantMu" is blocked inside Lock().  What the calls read and write is the
   subject of Spec and ReplicaSpec and is left alone here. *)

LockVars == <<hasPeer, applyCommits, llog, plog, applied, peerInSync, alive, spc, st, lock, do, ypc, sy>>

\* The tasks that run Doer code: Do calls and syncPeer.
DoerTasks == Clients \cup {SyncTask}

\* The tasks that call methods of Log, each of which starts with
\* l.lock.Lock(); defer l.lock.Unlock().
LogCallers == DoerTasks \cup {CommitTask, StartTask}

\* The positions at which a task calls a method of Log: Do between its
\* d.lock.Lock() and its return, syncPeer both under d.lock (Committed) and
\* outside it (Record), the POST /log/commit handler, NewDoer.
CallPcs(t) ==
    IF t \in Clients THEN {"inDo"}
    ELSE IF t = SyncTask THEN {"inDo", "idle"}
    ELSE IF t = StartTask THEN {"start"}
    ELSE {"idle"}

\* Where a task is after a method of Log has returned.
ReturnPc(t) ==
    IF th.dlock = t THEN "inDo" ELSE IF t = StartTask THEN "start" ELSE "idle"

\* NewDoer's tail: doer.peerInSync = true, go doer.syncPeer(), return doer;
\* from here on Do calls and requests are served.
LkNewDoer ==
    /\ th.pc[StartTask] = "start"
    /\ th' = [th EXCEPT !.acc = StartTask,
                        !.pc = [t \in LockTasks |-> IF t = StartTask THEN "done" ELSE "idle"]]
    /\ UNCHANGED LockVars

\* LkCallDo for a Log that called back into the Doer while holding l.lock.
LkCallDoInsideLog ==
    /\ \E t \in DoerTasks :
         /\ th.pc[t] \in {"idle", "inLog"}
         /\ th' = [th EXCEPT !.acc = 0, !.pc[t] = "wantD"]
    /\ UNCHANGED LockVars

\* a task enters d.lock.Lock()
LkCallDo ==
    /\ \E t \in DoerTasks :
         /\ th.pc[t] = "idle"
         /\ th' = [th EXCEPT !.acc = 0, !.pc[t] = "wantD"]
    /\ UNCHANGED LockVars

\* d.lock.Lock() returns
LkLock ==
    /\ \E t \in DoerTasks :
         /\ th.pc[t] = "wantD" /\ th.dlock = 0
         /\ th' = [th EXCEPT !.acc = 0, !.dlock = t, !.pc[t] = "inDo"]
    /\ UNCHANGED LockVars

\* LkAccess for a syncPeer that tests d.peerInSync before taking d.lock.
LkAccessUnlocked ==
    /\ \E t \in DoerTasks :
         /\ th.pc[t] \in {"inDo"} \cup (IF t = SyncTask THEN {"idle"} ELSE {})
         /\ th.acc # t
         /\ th' = [th EXCEPT !.acc = t]
    /\ UNCHANGED LockVars

\* under d.lock: if d.peer != nil && d.peerInSync, d.peerInSync = false (Do);
\* if d.peerInSync, d.peerInSync = true (syncPeer)
LkAccess ==
    /\ \E t \in DoerTasks :
         /\ th.pc[t] = "inDo"
         /\ th.acc # t
         /\ th' = [th EXCEPT !.acc = t]
    /\ UNCHANGED LockVars

\* d.lock.Unlock()
LkUnlock ==
    /\ \E t \in DoerTasks :
         /\ th.pc[t] = "inDo"
         /\ th' = [th EXCEPT !.acc = 0, !.dlock = 0, !.pc[t] = "idle"]
    /\ UNCHANGED LockVars

\* a task calls a method of Log and enters l.lock.Lock()
LkCallLog ==
    /\ \E t \in LogCallers :
         /\ th.pc[t] \in CallPcs(t)
         /\ th' = [th EXCEPT !.acc = 0, !.pc[t] = "wantMu"]
    /\ UNCHANGED LockVars

\* l.lock.Lock() returns; the method works on l.commitLog
LkLogLock ==
    /\ \E t \in LogCallers :
         /\ th.pc[t] = "wantMu" /\ th.mu = 0
         /\ th' = [th EXCEPT !.acc = 0, !.mu = t, !.store = @ \cup {t}, !.pc[t] = "inLog"]
    /\ UNCHANGED LockVars

\* the method returns through its deferred l.lock.Unlock()
LkLogUnlock ==
    /\ \E t \in LogCallers :
         /\ th.pc[t] = "inLog" /\ th.mu = t
         /\ th' = [th EXCEPT !.acc = 0, !.mu = 0, !.store = @ \ {t}, !.pc[t] = ReturnPc(t)]
    /\ UNCHANGED LockVars

\* POST /log/rollback: commitLog.Rollback(); GET /log/record/:id:
\* commitLog.Get(*id); both on the LogStore itself
LkStoreBegin ==
    /\ \E t \in {RollbackTask, RecordTask} :
         /\ th.pc[t] = "idle"
         /\ th' = [th EXCEPT !.acc = 0, !.store = @ \cup {t}, !.pc[t] = "inStore"]
    /\ UNCHANGED LockVars

\* the LogStore call of the handler returns
LkStoreEnd ==
    /\ \E t \in {RollbackTask, RecordTask} :
         /\ th.pc[t] = "inStore"
         /\ th' = [th EXCEPT !.acc = 0, !.store = @ \ {t}, !.pc[t] = "idle"]
    /\ UNCHANGED LockVars

LockNext ==
    \/ LkNewDoer
    \/ LkCallDo
    \/ LkLock
    \/ LkAccess
    \/ LkUnlock
    \/ LkCallLog
    \/ LkLogLock
    \/ LkLogUnlock
    \/ LkStoreBegin
    \/ LkStoreEnd

InitLock ==
    /\ hasPeer = TRUE
    /\ applyCommits = TRUE
    /\ llog = EmptyStore
    /\ plog = EmptyStore
    /\ applied = <<>>
    /\ Booting

LockSpec == InitLock /\ [][LockNext]_vars

TypeOK ==
    /\ hasPeer \in BOOLEAN
    /\ applyCommits \in BOOLEAN
    /\ peerInSync \in BOOLEAN
    /\ alive \in BOOLEAN
    /\ lock \in Clients \cup {0}
    /\ th.dlock \in LockTasks \cup {0} /\ th.mu \in LockTasks \cup {0}
    /\ th.store \subseteq LockTasks /\ th.acc \in LockTasks \cup {0}
    /\ llog.committed \in Versions /\ llog.prepared \in Versions
    /\ plog.committed \in Versions /\ plog.prepared \in Versions

----------------------------------------------------------------------------
(* Properties *)

Returned == do.pc = "done"

Succeeded == do.pc = "done" /\ do.err = StatusOK

NewApplies == SubSeq(applied, do.startApplied + 1, Len(applied))

\* The records of a store above its committed version.
Uncommitted(l) == {v \in RecIds : v > l.committed /\ l.rec[v] # NoData}

PreparedWellFormed(l) ==
    /\ l.prepared # 0 => l.prepared = l.committed + 1 /\ l.rec[l.prepared] # NoData
    /\ LET u == Uncommitted(l) IN
          u \subseteq ({l.prepared} \ {0}) /\ Cardinality(u) <= 1

\* C1: in every reachable state the primary's and the peer's log each hold
\* at most one prepared record, and its version is committed + 1.
C1_AtMostOnePrepared == PreparedWellFormed(llog) /\ PreparedWellFormed(plog)

\* Both logs hold a prepared record while a Do is between Prepare and Commit.
C1_Witness ==
    /\ spc = "done" /\ do.pc = "commit"
    /\ llog.prepared = llog.committed + 1 /\ plog.prepared = plog.committed + 1

\* C2: a Do that returns success has raised the local committed version by
\* exactly 1 and Service.Apply was called exactly once in it, for the new
\* version and this Do's operation.
C2_SuccessfulDoCommitsOnce ==
    Succeeded =>
        /\ llog.committed = do.startLog.committed + 1
        /\ NewApplies = << <<llog.committed, do.op>> >>

C2_Witness == Succeeded /\ do.commitOK /\ Len(applied) = do.startApplied + 1

\* C3: the Apply calls seen by the primary's Service carry the versions
\* 1, 2, 3, ... in this order, none skipped or repeated.
C3_ApplyAscending == \A k \in 1 .. Len(applied) : applied[k][1] = k

\* C4: once startup has returned the peer is never ahead of the primary and
\* every record the peer has committed equals the primary's record.
C4_PeerNeverAhead ==
    (spc = "done" /\ hasPeer) =>
        /\ plog.committed <= llog.committed
        /\ \A v \in 1 .. plog.committed : plog.rec[v] = llog.rec[v]

\* C5: a Do whose local Prepare and Commit succeeded returns success; when
\* a peer RPC failed on all its attempts in it, peerInSync is false and the
\* local commit stands.
C5_PeerFailureIsNotAnError ==
    (Returned /\ do.prepareOK /\ do.commitOK) =>
        /\ do.err = StatusOK
        /\ do.peerFailed =>
              /\ ~peerInSync
              /\ llog.committed = do.startLog.committed + 1
              /\ llog.rec[llog.committed] = Marshal(do.op)

C5_Witness == Returned /\ do.prepareOK /\ do.commitOK /\ do.peerFailed

\* C6: when Do returns an Internal (500) error the local log is rolled back:
\* committed is what it was when the Do began and nothing is prepared.
C6_InternalErrorMeansRolledBack ==
    (Returned /\ do.err = StatusInternalServerError) =>
        /\ llog.committed = do.startLog.committed
        /\ llog.prepared = 0

\* A local Commit in which Service.Apply was called and which returned an error.
ApplyFailedInCommit ==
    /\ Len(applied') = Len(applied) + 1
    /\ \/ do.pc = "commit" /\ do'.pc = "rollback"
       \/ spc \in {"finalCommit", "pullCommit"} /\ spc' = "failed"

\* C7: when Service.Apply fails inside Commit, Commit returns Internal while
\* the store commit stands: the prepared record (if one was present) has
\* become the committed one, nothing is prepared any more, and Do's Rollback
\* afterwards does not undo it.
C7_ApplyFailureKeepsCommit ==
    /\ [][ApplyFailedInCommit =>
            /\ llog'.prepared = 0
            /\ llog.prepared # 0 => llog'.committed = llog.committed + 1
            /\ applied'[Len(applied')][1] = llog'.committed
            /\ do.pc = "commit" => do'.err = StatusInternalServerError]_vars
    /\ []((Returned /\ do.at = "commit" /\ Len(applied) = do.startApplied + 1) =>
            /\ llog.committed = do.startLog.committed + 1
            /\ llog.prepared = 0
            /\ do.err = StatusInternalServerError)

C7_Witness == Returned /\ do.at = "commit" /\ Len(applied) = do.startApplied + 1

VersionMismatch(l, v) == v # Inc(l.committed)

\* C8: with ignoreVersion = false a Do whose version is not committed + 1 is
\* refused by Prepare's version test with BadRequest, the local log is as
\* before, no RPC was sent and peerInSync is as before; a direct Prepare of
\* such a payload on either log returns BadRequest and leaves the log as is.
C8_VersionMismatchIsBadRequest ==
    /\ (Returned /\ ~do.ignore /\ VersionMismatch(do.startLog, do.version)
          /\ do.at = "prepare") =>
          /\ do.err = StatusBadRequest
          /\ llog = do.startLog
          /\ ~do.rpc
          /\ peerInSync = do.startInSync
    /\ \A l \in {llog, plog}, v \in 0 .. (MaxVersion + 1), op \in Ops :
          VersionMismatch(l, v) =>
             LogPrepare(l, Payload(v, op), "none") = [log |-> l, status |-> StatusBadRequest]

C8_Witness ==
    /\ Returned /\ ~do.ignore /\ VersionMismatch(do.startLog, do.version)
    /\ do.at = "prepare" /\ do.op \in ValidOps /\ hasPeer /\ do.startInSync

\* C9: when LockResources refuses, Do returns ServiceUnavailable with the
\* local log as before, nothing prepared, no Apply, no peer RPC.
C9_ResourceBusy ==
    (Returned /\ ~do.locked) =>
        /\ do.err = StatusServiceUnavailable
        /\ llog = do.startLog
        /\ llog.prepared = 0
        /\ ~do.rpc
        /\ NewApplies = <<>>

C9_Witness == Returned /\ ~do.locked /\ hasPeer /\ peerInSync

\* C10: an operation that Service.Validate rejects is never written: Prepare
\* returns BadRequest and the log is as before, for every log state and
\* payload version; a Do carrying it ends with the local log as before.
C10_ValidateGate ==
    /\ \A l \in {llog, plog}, v \in 0 .. (MaxVersion + 1), op \in InvalidOps :
          LogPrepare(l, Payload(v, op), "none") = [log |-> l, status |-> StatusBadRequest]
    /\ (Returned /\ do.op \in InvalidOps) =>
          /\ llog = do.startLog
          /\ do.err # StatusOK
          /\ do.at = "prepare" => do.err = StatusBadRequest

C10_Witness ==
    /\ Returned /\ do.op \in InvalidOps /\ do.at = "prepare"
    /\ do.version = do.startLog.committed + 1

\* C11: Rollback on a log with nothing prepared returns success and leaves
\* the log as it is; Rollback on any log leaves committed unchanged and
\* afterwards Prepared reports not-found; a Do that rolled back after a
\* failed Commit returns with nothing prepared.
C11_RollbackIdempotent ==
    /\ \A l \in {llog, plog} :
          LET r == LogRollback(l, "none") IN
          /\ r.status = StatusOK
          /\ r.log.committed = l.committed
          /\ LogPrepared(r.log, "none").status = StatusNotFound
          /\ l.prepared = 0 => r.log = l
          /\ LogRollback(r.log, "none") = r
          /\ LogRollback(l, "store").log = l
    /\ (Returned /\ do.at = "commit") =>
          /\ llog.prepared = 0
          /\ llog.committed \in {do.startLog.committed, do.startLog.committed + 1}

\* A Do whose Commit advanced the store and then failed to read the record:
\* its Rollback found nothing prepared and returned success.
C11_Witness ==
    /\ Returned /\ do.at = "commit"
    /\ llog.committed = do.startLog.committed + 1
    /\ Len(applied) = do.startApplied

\* The step in which NewDoer returns, with a Doer or with an error.
StartupEnds == spc \notin {"done", "failed"} /\ spc' \in {"done", "failed"}

\* C12: the primary starts with op prepared at version v.  When startup
\* ends, committed is below v, or it is v with op promoted by the recovery
\* commit, or it lies between v and the committed version of a peer that
\* was ahead (equal to it when startup succeeds), with the peer's records
\* at v and above; and while startup runs, committed >= v only with the
\* peer's committed record at v.
C12_ReopenSafety ==
    /\ [][(StartupEnds /\ st.bootV # 0) =>
            \/ llog'.committed < st.bootV
            \/ /\ llog'.committed = st.bootV
               /\ llog.prepared = st.bootV
               /\ llog'.rec[st.bootV] = Marshal(st.bootOp)
            \/ /\ llog'.committed >= st.bootV
               /\ llog'.committed <= st.peerV
               /\ spc' = "done" => llog'.committed = st.peerV
               /\ \A u \in st.bootV .. llog'.committed : llog'.rec[u] = plog.rec[u]]_vars
    /\ []((st.bootV # 0 /\ llog.committed >= st.bootV) =>
            /\ hasPeer /\ st.bootV <= plog.committed
            /\ llog.rec[st.bootV] = plog.rec[st.bootV])

\* Startup is about to return with committed beyond the version that was
\* prepared at the start.
C12_Witness ==
    /\ spc = "finalCommit" /\ st.bootV # 0 /\ ~st.skip
    /\ llog.committed > st.bootV /\ llog.prepared = 0

\* C12 as stated: when startup ends, committed is v or less.
C12_CommittedAtMostPrepared ==
    [][(StartupEnds /\ st.bootV # 0) => llog'.committed <= st.bootV]_vars

\* The step in which NewDoer returns a Doer for a configured peer.
StartupReturns == spc = "finalCommit" /\ spc' = "done" /\ hasPeer

\* C13: when NewDoer returns with a peer configured and peerInSync = true,
\* both logs have the same committed version and neither holds a prepared
\* record; peerInSync is true exactly when no goto SKIP_PEER was taken.
C13_InSyncAfterStartup ==
    [][StartupReturns =>
         /\ peerInSync' = ~st.skip
         /\ peerInSync' =>
               /\ llog'.committed = plog'.committed
               /\ llog'.prepared = 0
               /\ plog'.prepared = 0]_vars

\* Startup has returned in sync after pulling from a peer that was ahead.
C13_Witness ==
    /\ spc = "done" /\ hasPeer /\ peerInSync
    /\ llog.committed = MaxInit + MaxAhead /\ plog.committed = llog.committed

\* The reconciliation found the peer behind, nothing prepared on either side,
\* and every call of it succeeded.
PushedCleanly ==
    /\ StartupReturns /\ ~st.skip
    /\ st.peerV < st.localV /\ st.bootV = 0 /\ st.peerPrep = 0

\* C14: when the peer starts behind with nothing prepared on either side and
\* every RPC succeeds, NewDoer returns with the peer's committed version
\* equal to the local one, peerInSync = true, and without any call to
\* Service.Apply on the primary.
C14_PushMakesNoApply ==
    [][PushedCleanly =>
         /\ plog'.committed = llog'.committed
         /\ llog'.committed = st.localV
         /\ peerInSync'
         /\ applied' = applied
         /\ Len(applied') = st.localV]_vars

\* The pull loop has run to its end: the peer was ahead and every call of
\* the loop succeeded.
PulledAll == spc = "peerPrepared" /\ st.peerV > st.localV

\* C15: when the peer starts ahead at P > L, the local prepared record is
\* rolled back before the first pull, each pass of the loop commits one
\* pulled record, and at the end of the loop local committed = P and the
\* primary's Service has seen Apply(L+1), ..., Apply(P), in this order, with
\* the peer's records.
C15_PullAppliesInOrder ==
    /\ spc = "pull" =>
          /\ llog.prepared = 0
          /\ llog.committed = st.i
          /\ Len(applied) = st.i
    /\ PulledAll =>
          /\ llog.committed = st.peerV
          /\ llog.prepared = 0
          /\ Len(applied) = st.peerV
          /\ \A k \in (st.localV + 1) .. st.peerV :
                /\ llog.rec[k] = plog.rec[k]
                /\ applied[k] = <<k, Unmarshal(StoreGet(plog, k))>>

\* The primary started with a prepared record and has pulled two or more
\* records.
C15_Witness == PulledAll /\ st.peerV >= st.localV + 2 /\ st.bootV # 0

\* C16: with every call succeeding and no Do submitted, the sync loop
\* eventually declares the peer in sync with the peer's committed version
\* equal to the local one, whatever the local committed version is.
C16_EventuallyInSync == <>(peerInSync /\ plog.committed = llog.committed)

\* The step in which syncPeer sets d.peerInSync = true.
SyncDeclares == ypc = "check" /\ ~peerInSync /\ peerInSync'

\* C17: in the step in which the sync loop sets peerInSync = true, the
\* peer's committed version equals the local committed version, the Doer
\* lock is the loop's to hold (no Do is inside its critical section) and the
\* local log is not changed.
C17_DeclaredInSyncMeansEqual ==
    [][SyncDeclares =>
         /\ plog.committed = llog.committed
         /\ sy.peerV = plog.committed
         /\ lock = 0 /\ lock' = 0
         /\ do.pc = "idle"
         /\ llog' = llog /\ plog' = plog]_vars

\* The sync loop has just declared the peer in sync after catching it up
\* with records committed by Do.
C17_Witness ==
    /\ ypc = "top" /\ peerInSync /\ sy.localV = sy.peerV
    /\ sy.localV = MaxVersion /\ llog.committed = MaxVersion
    /\ plog.committed = MaxVersion /\ do.pc = "idle"

\* C18: with a peer whose RPCs all succeed, once NewDoer has returned the
\* peer's committed records are a prefix of the primary's, and while
\* peerInSync is true and no Do is in progress the two committed versions
\* are equal.
C18_PeerFollowsPrimary ==
    (hasPeer /\ spc = "done" /\ peerInSync) =>
        /\ plog.committed <= llog.committed
        /\ \A v \in 1 .. plog.committed : plog.rec[v] = llog.rec[v]
        /\ do.pc = "idle" => plog.committed = llog.committed

\* C19: a Log created with applyCommits = false never calls Service.Apply:
\* its Commit promotes the prepared record and leaves the Service alone.
C19_ApplyOnlyWhenEnabled == ~applyCommits => applied = <<>>

\* The committed records of l are still there, unchanged, in m.
KeepsCommitted(l, m) ==
    /\ m.committed >= l.committed
    /\ \A v \in 1 .. l.committed :
          /\ m.rec[v] = l.rec[v]
          /\ LogRecord(m, v, "none") = LogRecord(l, v, "none")
          /\ LogRecord(m, v, "none").status = StatusOK

\* C20: no step of startup, Do, the sync loop or an RPC handler changes or
\* removes a committed record of the primary's or the peer's log, or lowers
\* a committed version: Record(v) keeps returning the operation committed
\* at v.
C20_CommittedRecordsImmutable ==
    [][KeepsCommitted(llog, llog') /\ KeepsCommitted(plog, plog')]_vars

\* A second Do has committed version 2 and version 1 still holds the
\* operation a Do committed there.
C20_Witness ==
    /\ Succeeded /\ do.startLog.committed = 1 /\ llog.committed = 2
    /\ do.startLog.rec[1] = Marshal("b") /\ llog.rec[1] = Marshal("b")
    /\ do.op = "a"

\* C21: every call on the LogStore is made by the task that holds Log.lock,
\* the calls of the POST /log/rollback and GET /log/record/:id handlers
\* included, so no two LogStore calls overlap.
C21_StoreUnderMutex == \A t \in th.store : th.mu = t

\* t is blocked in Lock() on a mutex that u holds.
WaitsFor(t, u) ==
    \/ th.pc[t] = "wantD" /\ th.dlock = u
    \/ th.pc[t] = "wantMu" /\ th.mu = u

\* C22: Doer.lock and Log.lock nest only as Doer.lock, then Log.lock: no
\* task enters d.lock.Lock() while it holds Log.lock, and no two tasks
\* wait for a mutex the other holds, however many Do calls run beside the
\* sync loop.
C22_LockOrder ==
    /\ \A t \in LockTasks : th.pc[t] = "wantD" => th.mu # t
    /\ \A t, u \in LockTasks : ~(WaitsFor(t, u) /\ WaitsFor(u, t))

\* A Do is inside a method of Log under Doer.lock while another Do and the
\* sync loop are blocked on Doer.lock and a handler is blocked on Log.lock.
C22_Witness ==
    /\ \E t \in Clients :
         /\ th.dlock = t /\ th.mu = t /\ th.pc[t] = "inLog"
         /\ \E u \in Clients \ {t} : th.pc[u] = "wantD"
    /\ th.pc[SyncTask] = "wantD"
    /\ th.pc[CommitTask] = "wantMu"

\* C23 as stated: whenever a task reads or writes peerInSync, NewDoer
\* included, it holds Doer.lock.
C23_AccessUnderLock == th.acc # 0 => th.dlock = th.acc

\* C23: Do and the sync loop read and write peerInSync only while holding
\* Doer.lock; NewDoer writes it without the lock, before it starts the
\* sync loop and before any Do can be called.
C23_AccessUnderLockOnceStarted ==
    th.acc # 0 =>
       \/ th.acc \in DoerTasks /\ th.dlock = th.acc
       \/ th.acc = StartTask /\ th.dlock = 0
          /\ \A t \in LockTasks \ {StartTask} : th.pc[t] = "idle"

\* The sync loop touches peerInSync under Doer.lock while a Do waits for
\* the lock.
C23_Witness ==
    /\ th.acc = SyncTask /\ th.dlock = SyncTask
    /\ \E t \in Clients : th.pc[t] = "wantD"

\* C24: once NewDoer has returned, peerInSync goes from true to false only
\* in the step of a Do in which the last of the MaxTries attempts of a peer
\* RPC failed, and from false to true only in the sync loop's comparison;
\* Do never turns it on and the sync loop never turns it off.
C24_PeerInSyncTransitions ==
    [][spc = "done" =>
         /\ peerInSync /\ ~peerInSync' =>
               /\ lock \in Clients /\ do.pc \in {"peerPrepare", "peerCommit"}
               /\ do.tries + 1 = MaxTries /\ do'.peerFailed /\ do'.rpc
               /\ ypc' = ypc /\ sy' = sy
         /\ ~peerInSync /\ peerInSync' =>
               /\ ypc = "check" /\ ypc' = "top" /\ sy.peerV = sy'.localV
               /\ do' = do]_vars

\* A Do that started with the peer in sync has given it up after its
\* peer.Prepare failed on every attempt.
C24_Witness ==
    /\ spc = "done" /\ do.startInSync /\ do.peerFailed /\ ~peerInSync
    /\ do.pc = "commit"

\* C25: in a Do, LockResources comes before every log operation and every
\* other Service call; a Do that was granted the lock calls UnlockResources
\* exactly once, on its way out and after all its log and peer operations,
\* whatever it returns; a Do that was refused returns at once and never
\* calls UnlockResources.
C25_ResourceLockBrackets ==
    /\ do.pc = "lockResources" =>
          /\ llog = do.startLog /\ Len(applied) = do.startApplied
          /\ ~do.rpc /\ ~do.locked /\ do.unlocks = 0
    /\ Returned => do.unlocks = (IF do.locked THEN 1 ELSE 0)
    /\ do.pc \notin {"done", "idle"} => do.unlocks = 0
    /\ ~do.locked /\ do.pc \notin {"idle", "lockResources"} =>
          /\ do.pc = "done" /\ do.at = "lockResources"
          /\ do.err = StatusServiceUnavailable
          /\ llog = do.startLog /\ Len(applied) = do.startApplied /\ ~do.rpc

\* A Do that held the resource lock returns an error after it has sent
\* RPCs to the peer, having unlocked once.
C25_Witness ==
    /\ Returned /\ do.locked /\ do.unlocks = 1
    /\ do.err # StatusOK /\ do.rpc

\* C26: a Do with ignoreVersion = true prepares its operation at the
\* committed version + 1 whatever version the caller sent, an empty log
\* counting as committed version 0, so it never fails on a version mismatch
\* or on the NotFound of an empty log; on a fresh log without a peer a
\* successful first Do leaves Committed() returning version 1 with the
\* submitted operation.
C26_IgnoreVersionPreparesNext ==
    /\ do.ignore /\ (do.prepareOK \/ do.at \in {"prepare", "prepareRead"}) =>
          do.version = do.startLog.committed + 1
    /\ Returned /\ do.ignore /\ do.op \in ValidOps =>
          do.err \in {StatusOK, StatusServiceUnavailable, StatusInternalServerError}
    /\ Returned /\ do.ignore /\ do.op \in ValidOps /\ do.err # StatusOK =>
          do.at \in {"lockResources", "committed", "prepareRead", "prepare", "commit"}
    /\ Returned /\ do.ignore /\ do.at = "committed" => do.err = StatusInternalServerError
    /\ Succeeded /\ do.ignore /\ ~hasPeer /\ do.startLog = EmptyStore =>
          /\ LogCommitted(llog, "none").status = StatusOK
          /\ LogCommitted(llog, "none").payload = Payload(1, do.op)

\* The first Do on a fresh log without a peer, called with
\* ignoreVersion = true, has succeeded.
C26_Witness ==
    /\ Succeeded /\ do.ignore /\ ~hasPeer /\ do.startLog = EmptyStore
    /\ do.op = "b" /\ llog.committed = 1

\* C27: the committed version of a log never goes down.  On every log the
\* program reaches, a Commit with a record prepared raises the committed
\* version by exactly 1, to the prepared version, and clears the prepared
\* record; a Commit with nothing prepared, a Prepare and a Rollback leave
\* the committed version as it was, whether they succeed or fail.
C27_CommittedMonotone ==
    \A l \in {llog, plog} :
       /\ \A fail \in {"none", "read", "apply"} :
             LET m == LogCommit(l, fail).log IN
             IF l.prepared # 0
             THEN m.committed = l.committed + 1 /\ m.committed = l.prepared
                  /\ m.prepared = 0
             ELSE m = l
       /\ LogCommit(l, "store").log = l
       /\ \A version \in Versions, op \in Ops, fail \in {"none", "read", "store"} :
             LET m == LogPrepare(l, Payload(version, op), fail).log IN
             /\ m.committed = l.committed
             /\ LogCommit(m, "none").log.committed >= l.committed
       /\ \A fail \in {"none", "store"} :
             LogRollback(l, fail).log.committed = l.committed
       /\ StoreRollback(l).committed = l.committed

\* A Do has committed version 2 on a log that held version 1, through a
\* Prepare and a Commit with the prepared record present.
C27_Witness ==
    /\ do.commitOK /\ do.prepareOK /\ do.startLog.committed = 1
    /\ llog.committed = 2 /\ llog.prepared = 0

\* C28: a Do sends RPCs to the peer only if it found a configured peer in
\* sync when it started.  It makes at most MaxTries attempts of
\* peer.Prepare and of peer.Commit, each series ending at its first
\* success, and it reaches peer.Commit only after its local Commit
\* succeeded and its peer.Prepare succeeded.
C28_PeerRpcDiscipline ==
    /\ do.pc \in {"peerPrepare", "peerCommit"} =>
          /\ hasPeer /\ do.startInSync /\ peerInSync
          /\ do.tries < MaxTries /\ do.prepareOK
          /\ (do.tries > 0 => do.rpc)
    /\ do.pc = "peerPrepare" => ~do.commitOK /\ ~do.peerFailed /\ (do.rpc <=> do.tries > 0)
    /\ do.pc = "peerCommit" => do.commitOK /\ do.rpc /\ ~do.peerFailed
    /\ do.pc \notin {"peerPrepare", "peerCommit"} => do.tries = 0
    /\ do.peerFailed => do.rpc /\ ~peerInSync
    /\ do.rpc => hasPeer /\ do.startInSync /\ do.prepareOK
    /\ do.pc # "idle" /\ ~(hasPeer /\ do.startInSync) => ~do.rpc /\ ~do.peerFailed

\* A Do is about to make its third attempt of peer.Commit, its peer.Prepare
\* and its local Commit having succeeded.
C28_Witness ==
    /\ do.pc = "peerCommit" /\ do.tries = MaxTries - 1
    /\ do.commitOK /\ do.startInSync

\* C29: a Do whose local Commit failed goes to a local Rollback and
\* nowhere else: it sends no peer.Commit, and it returns the commit error
\* only after the Rollback succeeded, with nothing left prepared.  If the
\* Rollback fails the process is aborted on the spot and takes no further
\* step, so every Do starts on a log with nothing prepared.
C29_CommitFailureRollsBack ==
    /\ do.pc = "rollback" =>
          /\ do.at = "commit" /\ do.err # StatusOK /\ ~do.commitOK
          /\ do.unlocks = 0 /\ do.tries = 0
    /\ Returned /\ do.at = "commit" =>
          /\ do.err # StatusOK /\ ~do.commitOK /\ alive
          /\ llog.prepared = 0
    /\ do.pc = "peerCommit" => do.at = "end" /\ do.err = StatusOK
    /\ do.pc = "fatal" <=> ~alive
    /\ ~alive => do.at = "commit" /\ ~do.commitOK /\ lock # 0 /\ ~ENABLED Next
    /\ do.pc \in {"lockResources", "committed"} => llog.prepared = 0

\* The Rollback after a failed local Commit has failed too: the process
\* is gone, a prepared record left in its log and on the peer.
C29_Witness ==
    /\ ~alive /\ do.pc = "fatal" /\ do.rpc
    /\ llog.prepared # 0 /\ plog.prepared # 0

\* C30: once the fetch or the push of a record has failed in a pass of the
\* sync loop's catch-up, that pass sends no further peer.Prepare or
\* peer.Commit: it sleeps and starts over from the in-sync test.
C30_StopsAtFirstFailure ==
    ypc \in {"loopPrepare", "loopCommit"} => ~sy.sleep

\* The positions of syncPeer between its two critical sections: the RPCs
\* to the peer and the per-record catch-up.
CatchUpPcs == {"rollback", "peerCommitted", "loop", "loopPrepare", "loopCommit"}

\* C31: the sync loop's RPCs and its per-record catch-up run outside the
\* Doer lock: they never wait for it and never change it, so a Do can
\* take the lock and commit meanwhile; whatever was committed during a
\* catch-up, peerInSync is turned on only under the free lock and with
\* the peer at the primary's committed version of that moment.
C31_CatchUpOutsideLock ==
    [][/\ ypc \in CatchUpPcs /\ alive => ENABLED SyncPeer
       /\ ypc \in CatchUpPcs /\ (ypc' # ypc \/ sy' # sy) =>
             lock' = lock /\ do' = do /\ llog' = llog /\ peerInSync' = peerInSync
       /\ spc = "done" /\ ~peerInSync /\ peerInSync' =>
             /\ lock = 0 /\ ypc \notin CatchUpPcs
             /\ plog'.committed = llog'.committed]_vars

\* A Do has committed a record while the sync loop was pushing an earlier
\* one to the peer.
C31_Witness ==
    /\ ypc \in {"loopPrepare", "loopCommit"} /\ Succeeded
    /\ llog.committed > sy.localV /\ sy.localV > sy.peerV

\* The step in which the Commit at SKIP_PEER succeeds, in a process whose
\* log held a prepared record when it started.
RecoveryCommit == spc = "finalCommit" /\ spc' = "done" /\ st.bootV # 0

\* C32 as stated: whatever the peer's state, when NewDoer returns the
\* record that was prepared at the start is committed and was applied.
C32_PreparedAlwaysPromoted ==
    [][RecoveryCommit =>
         /\ llog'.committed >= st.bootV
         /\ llog'.rec[st.bootV] = Marshal(st.bootOp)
         /\ Len(applied') = Len(applied) + 1]_vars

\* C32: the Commit at the end of startup promotes and applies the record
\* that was prepared at the start when that record is still prepared then,
\* which is the case without a peer and may be the case only if the
\* reconciliation was cut short by a goto SKIP_PEER, acknowledged by the
\* peer or not; a reconciliation that ran to its end has rolled the record
\* back, and the Commit promotes nothing.
C32_PreparedPromotedUnlessRolledBack ==
    [][RecoveryCommit =>
         /\ llog.prepared \in {0, st.bootV}
         /\ ~hasPeer => llog.prepared = st.bootV
         /\ llog.prepared = st.bootV => ~hasPeer \/ st.skip
         /\ hasPeer /\ ~st.skip => llog.prepared = 0
         /\ llog.prepared = st.bootV =>
               /\ llog'.committed = st.bootV /\ llog'.prepared = 0
               /\ llog'.rec[st.bootV] = Marshal(st.bootOp)
               /\ applied' = Append(applied, <<st.bootV, st.bootOp>>)
         /\ llog.prepared = 0 =>
               /\ llog' = llog
               /\ st.peerV <= st.localV => llog.rec[st.bootV] = NoData]_vars

\* The Commit at the end of startup is about to promote a record that the
\* peer, out of reach, never saw.
C32_Witness ==
    /\ spc = "finalCommit" /\ hasPeer /\ st.skip
    /\ st.bootV # 0 /\ llog.prepared = st.bootV
    /\ plog.prepared = 0 /\ plog.committed < st.bootV

\* The positions of NewDoer at an RPC to the peer outside the pull from a
\* peer that is ahead, and the positions at a call on the local log or
\* inside that pull.
StartRpcPcs == {"start", "pushPrepare", "pushCommit", "peerPrepared", "rollbackPeer"}

StartLocalPcs ==
    {"localCommitted", "pullRollback", "pull", "pullPrepare", "pullCommit",
     "localPrepared", "rollbackLocal", "finalCommit"}

\* C33: no step of NewDoer at an RPC that reads the peer's committed or
\* prepared version, pushes a record or rolls the peer back ends startup
\* with an error: when the RPC fails the step goes to SKIP_PEER with
\* peerInSync false, and if the Commit there succeeds NewDoer returns a
\* Doer with peerInSync false.  Startup ends with an error only at a call
\* on the local log or inside the pull from a peer that is ahead.
C33_RpcFailureSkipsPeer ==
    [][/\ spc \in StartRpcPcs \cup {"push"} => spc' # "failed"
       /\ ~st.skip /\ st'.skip =>
             /\ spc \in StartRpcPcs \cup {"push"} /\ spc' = "finalCommit"
             /\ ~peerInSync' /\ llog' = llog
       /\ spc # "failed" /\ spc' = "failed" => spc \in StartLocalPcs
       /\ spc = "finalCommit" /\ st.skip =>
             /\ ~peerInSync /\ ~peerInSync'
             /\ spc' \in {"done", "failed"}]_vars

\* NewDoer is at SKIP_PEER after the Commit RPC of a push failed, the peer
\* left with the pushed record prepared.
C33_Witness ==
    /\ spc = "finalCommit" /\ hasPeer /\ st.skip /\ ~peerInSync
    /\ st.peerV < st.localV /\ plog.prepared # 0

\* C34: once NewDoer has returned, whenever the Doer lock is free the
\* primary's log holds no prepared record and no record above its
\* committed version: startup and every return of Do leave the prepared
\* slot empty.
C34_NoPreparedBetweenDos ==
    spc = "done" /\ lock = 0 =>
       /\ llog.prepared = 0
       /\ Uncommitted(llog) = {}
       /\ do = IdleDo /\ alive

\* The Doer lock is free again after a Do has committed version 2 on top
\* of a record that was not in the log the process found on disk.
C34_Witness ==
    /\ spc = "done" /\ lock = 0 /\ llog.prepared = 0
    /\ llog.committed = 2
    /\ llog.rec[1] = Marshal("b") /\ llog.rec[2] = Marshal("b")

\* C35: whenever peerInSync is true and no Do is executing, the peer's
\* committed version equals the primary's and the peer holds no prepared
\* record, also after a Do that returned an error once the peer had
\* accepted its Prepare.
C35_InSyncPeerIsClean ==
    (hasPeer /\ spc = "done" /\ peerInSync /\ lock = 0) =>
        /\ plog.committed = llog.committed
        /\ plog.prepared = 0

\* C36: Do calls are serialized by the Doer lock.  A call is under way
\* exactly while the lock is held; it starts on a log with nothing
\* prepared, and until it returns the local log differs from the log it
\* started on by nothing but its own record, prepared or committed at the
\* committed version + 1.  So every successful call with ignoreVersion
\* commits at the version after the one before it: N of them take N
\* consecutive versions.
C36_DoCallsSerialized ==
    /\ spc = "done" => (lock = 0 <=> do.pc = "idle")
    /\ do.pc # "idle" =>
          /\ lock \in Clients
          /\ do.startLog.prepared = 0
          /\ llog.committed \in {do.startLog.committed, do.startLog.committed + 1}
          /\ \A v \in 1 .. do.startLog.committed : llog.rec[v] = do.startLog.rec[v]
          /\ llog.committed # do.startLog.committed =>
                /\ do.version = llog.committed /\ llog.prepared = 0
                /\ llog.rec[llog.committed] = Marshal(do.op)
          /\ llog.prepared # 0 =>
                /\ do.version = llog.prepared
                /\ llog.rec[llog.prepared] = Marshal(do.op)
          /\ llog.committed = do.startLog.committed /\ llog.prepared = 0 =>
                llog = do.startLog
    /\ Succeeded /\ do.ignore =>
          /\ llog.committed = do.startLog.committed + 1
          /\ do.version = llog.committed
          /\ Len(applied) = do.startApplied + 1

\* The second client's Do has committed version 2 right after a Do had
\* committed version 1.
C36_Witness ==
    /\ Succeeded /\ do.ignore /\ lock = 2
    /\ do.startLog.committed = 1 /\ do.startLog.rec[1] = Marshal("b")
    /\ llog.committed = 2 /\ llog.rec[2] = Marshal("a")

\* C37: for every pair of versions the sync loop reads, the catch-up loop
\* runs over the versions from the peer's committed version up to the
\* local one and no others, at most their difference in number, a peer
\* ahead of the primary included.
C37_CatchUpBounded ==
    ypc \in {"loop", "loopPrepare", "loopCommit"} =>
       /\ sy.peerV <= sy.localV
       /\ sy.peerV <= sy.i /\ sy.i <= sy.localV

\* C38: Do and the sync loop never have mutating RPCs to the peer under
\* way at the same time.  Do is at a peer.Prepare or peer.Commit only
\* while it holds the Doer lock and peerInSync is true; the sync loop is
\* between its in-sync test and the end of its catch-up only while
\* peerInSync is false, so the flag does not turn true during a catch-up.
C38_NoConcurrentPeerWrites ==
    /\ ypc \in CatchUpPcs \cup {"check"} => ~peerInSync /\ hasPeer
    /\ do.pc \in {"peerPrepare", "peerCommit"} =>
          /\ peerInSync /\ lock \in Clients
          /\ ypc \in {"top", "off"}
    /\ ~(/\ do.pc \in {"peerPrepare", "peerCommit"}
         /\ ypc \in {"rollback", "loopPrepare", "loopCommit"})

\* The sync loop is about to send peer.Commit for a record of its catch-up
\* while a Do that found the peer out of sync is committing locally.
C38_Witness ==
    /\ ypc = "loopCommit" /\ do.pc = "commit"
    /\ hasPeer /\ ~do.startInSync /\ ~do.rpc /\ ~peerInSync

====
